---- MODULE Spec2Model ----
(***************************************************************************)
(* kmxpad: the event handler that turns keyboard / mouse events into an    *)
(* XUSB controller report (src/event_handler/mod.rs, src/types.rs).        *)
(*                                                                         *)
(* Numbers.  The f64 values of the program are modelled as exact           *)
(* rationals with the common denominator Den: an AnalogState holds the     *)
(* numerators of x and y.  The clock counts units of 20 ms.  The polar     *)
(* round trip  cos(atan2(y,x)) * sqrt(x^2+y^2)  is taken as its exact      *)
(* value x; the final `as i16` cast truncates toward zero and saturates.   *)
(***************************************************************************)
EXTENDS Integers, Sequences, FiniteSets, TLC

\* ------------------------------------------------------------- bounds ---
MaxQueue == 2
MaxEvents == 3
MaxTime == 2

\* ------------------------------------------------ program constants ---
Sensitivity == 5
SampleWindow == 1
ThresholdNum == 3
ThresholdDen == 2
ANALOG_MAX == 32768
I16_MAX == 32767
I16_MIN == -32768
U8_MAX == 255

\* 1e4 * sample_window.as_secs_f64(), the clock unit being 1/50 s
Den == 200 * SampleWindow

\* ---------------------------------------------------------- types.rs ---
Up == "Up"
Down == "Down"
KeyState == {Up, Down}

\* the buttons and keys the input source reports here
MouseButton == {"Left", "Right"}
ScanCode == {"W"}

ControllerButton ==
  [ DpadUp |-> 1, DpadDown |-> 2, DpadLeft |-> 4, DpadRight |-> 8,
    Start |-> 16, Back |-> 32, LeftThumb |-> 64, RightThumb |-> 128,
    LeftShoulder |-> 256, RightShoulder |-> 512, Guide |-> 1024,
    A |-> 4096, B |-> 8192, X |-> 16384, Y |-> 32768,
    LeftTrigger |-> 32769, RightTrigger |-> 32770 ]

\* Event, with the same fields in every variant (fields and set elements are
\* written in the order TLC keeps them)
MouseMoveEv(x, y) == [x |-> x, y |-> y, kind |-> "MouseMove", code |-> "", state |-> ""]
MouseButtonEv(b, s) == [x |-> 0, y |-> 0, kind |-> "MouseButton", code |-> b, state |-> s]
KeyboardEv(c, s) == [x |-> 0, y |-> 0, kind |-> "Keyboard", code |-> c, state |-> s]
ResetEv == [x |-> 0, y |-> 0, kind |-> "Reset", code |-> "", state |-> ""]
NoEvent == [x |-> 0, y |-> 0, kind |-> "Err", code |-> "", state |-> ""]

\* ------------------------------------------------ event_handler/mod.rs ---
Keyboard(c) == <<"Keyboard", c>>
Mouse(b) == <<"Mouse", b>>
MouseMove == <<"MouseMove", "">>

Button(c) == [x |-> 0, y |-> 0, kind |-> "Button", button |-> c]
AnalogLeft(x, y) == [x |-> x, y |-> y, kind |-> "AnalogLeft", button |-> ""]
AnalogRight(x, y) == [x |-> x, y |-> y, kind |-> "AnalogRight", button |-> ""]

Left == "Left"
Right == "Right"
AnalogType == {Left, Right}

AnalogState(t, x, y) == [x |-> x, y |-> y, analog_type |-> t]

XUSBReportDefault ==
  [ w_buttons |-> 0, b_left_trigger |-> 0, b_right_trigger |-> 0,
    s_thumb_lx |-> 0, s_thumb_ly |-> 0, s_thumb_rx |-> 0, s_thumb_ry |-> 0 ]

\* HashMap operations
EmptyMap == [k \in {} |-> 0]
Insert(m, k, v) == [j \in DOMAIN m \cup {k} |-> IF j = k THEN v ELSE m[j]]
Remove(m, k) == [j \in DOMAIN m \ {k} |-> m[j]]

\* ------------------------------------------------------ configurations ---
\* The mouse delta the input source reports
MouseDeltas == {<<20, -40>>}

\* MouseMove is not bound
BindsOmitted ==
  (Keyboard("W") :> AnalogLeft(0, 1)) @@ (Mouse("Left") :> Button("LeftTrigger")) @@
  (Mouse("Right") :> AnalogRight(1, 0))

\* MouseMove is bound to a Button; the key W is not bound
BindsButton ==
  (Mouse("Left") :> Button("X")) @@ (Mouse("Right") :> Button("A")) @@
  (MouseMove :> Button("B"))

\* MouseMove is bound to an Analog action; W and the left mouse button share
\* one controller button, the right mouse button is not bound
BindsAnalog ==
  (Keyboard("W") :> Button("RightTrigger")) @@ (Mouse("Left") :> Button("RightTrigger")) @@
  (MouseMove :> AnalogLeft(1, 1))

Configs ==
  { [binds |-> BindsOmitted, mouse_button_fix |-> TRUE, analog_circularize |-> FALSE,
     oversteer_alert_enabled |-> TRUE],
    [binds |-> BindsButton, mouse_button_fix |-> FALSE, analog_circularize |-> FALSE,
     oversteer_alert_enabled |-> FALSE],
    [binds |-> BindsAnalog, mouse_button_fix |-> TRUE, analog_circularize |-> TRUE,
     oversteer_alert_enabled |-> TRUE] }

VARIABLES
  _config,              \* the Config handed to EventHandler::new
  config,               \* self.config after new
  rx,                   \* events in the channel
  connected,            \* the Sender is alive
  produced,             \* events sent so far
  now,                  \* Instant::now()
  pc,                   \* position of run's loop
  event,                \* run's local `event`
  report,               \* self.report
  mouse_samples,        \* self.mouse_samples
  mouse_button_states,  \* self.mouse_button_states
  analog_state,         \* self.analog_state
  bind_calls,           \* handle_bind calls of this tick, in order
  evicted,              \* samples popped by this tick's update_analog
  tone_calls,           \* tone_generator.enable calls of this tick, in order
  tick_log,             \* steps of this tick, in order
  sink,                 \* report last accepted by vigem.update
  result                \* what run returned

vars == <<_config, config, rx, connected, produced, now, pc, event, report,
          mouse_samples, mouse_button_states, analog_state, bind_calls,
          evicted, tone_calls, tick_log, sink, result>>

engine == <<config, pc, event, report, mouse_samples, mouse_button_states,
            analog_state, bind_calls, evicted, tone_calls, tick_log, sink, result>>

\* ------------------------------------------------------ EventHandler::new ---
\* faulty variant: only a missing MouseMove is replaced, a Button is kept
NewOmittedOnly(c) ==
  IF MouseMove \notin DOMAIN c.binds
    THEN [c EXCEPT !.binds = Insert(c.binds, MouseMove, AnalogRight(1, -1))]
    ELSE c

New(c) ==
  IF MouseMove \notin DOMAIN c.binds
    THEN [c EXCEPT !.binds = Insert(c.binds, MouseMove, AnalogRight(1, -1))]
    ELSE IF c.binds[MouseMove].kind = "Button"
           THEN [c EXCEPT !.binds[MouseMove] = AnalogRight(1, -1)]
           ELSE c

NoReport == [XUSBReportDefault EXCEPT !.w_buttons = -1]

Init ==
  /\ _config \in Configs
  /\ config = New(_config)
  /\ rx = <<>>
  /\ connected = TRUE
  /\ produced = 0
  /\ now = 0
  /\ pc = "try_recv"
  /\ event = NoEvent
  /\ report = XUSBReportDefault
  /\ mouse_samples = <<>>
  /\ mouse_button_states = <<Up, Up>>
  /\ analog_state = EmptyMap
  /\ bind_calls = <<>>
  /\ evicted = 0
  /\ tone_calls = <<>>
  /\ tick_log = <<>>
  /\ sink = NoReport
  /\ result = "running"

\* --------------------------------------------------- the event producer ---
\* The input thread sends an event (mpsc::Sender::send)
Produce(e) ==
  /\ connected
  /\ produced < MaxEvents
  /\ Len(rx) < MaxQueue
  /\ rx' = Append(rx, e)
  /\ produced' = produced + 1
  /\ UNCHANGED <<_config, connected, now>>
  /\ UNCHANGED engine

SendMouseMove == \E d \in MouseDeltas : Produce(MouseMoveEv(d[1], d[2]))
SendMouseButton == \E b \in MouseButton, s \in KeyState : Produce(MouseButtonEv(b, s))
SendKeyboard == \E c \in ScanCode, s \in KeyState : Produce(KeyboardEv(c, s))
SendReset == Produce(ResetEv)

\* The input thread ends and drops its Sender
Disconnect ==
  /\ connected
  /\ connected' = FALSE
  /\ UNCHANGED <<_config, rx, produced, now>>
  /\ UNCHANGED engine

\* The monotonic clock advances
Advance ==
  /\ now < MaxTime
  /\ now' = now + 1
  /\ UNCHANGED <<_config, rx, connected, produced>>
  /\ UNCHANGED engine

\* ---------------------------------------------------------- handle_bind ---
HasBit(m, flag) == (m \div flag) % 2 = 1
BitOr(m, flag) == IF HasBit(m, flag) THEN m ELSE m + flag
BitAndNot(m, flag) == IF HasBit(m, flag) THEN m - flag ELSE m

\* faulty variant: a repeated Down adds the factors to the entry
HandleAnalogAdds(an, bind, state, t, x, y) ==
  IF bind \in DOMAIN an /\ state = Up
    THEN Remove(an, bind)
    ELSE IF bind \in DOMAIN an
           THEN [an EXCEPT ![bind].x = @ + x * Den, ![bind].y = @ + y * Den]
           ELSE Insert(an, bind, AnalogState(t, x * Den, y * Den))

\* the AnalogLeft / AnalogRight arms
HandleAnalog(an, bind, state, t, x, y) ==
  IF bind \in DOMAIN an /\ state = Up
    THEN Remove(an, bind)
    ELSE Insert(an, bind, AnalogState(t, x * Den, y * Den))

\* faulty variant: a trigger, once pulled, is not released by an Up
HandleButtonTriggerSticks(rep, button, state) ==
  CASE button = "LeftTrigger" ->
         [rep EXCEPT !.b_left_trigger = IF state = Down THEN U8_MAX ELSE @]
    [] button = "RightTrigger" ->
         [rep EXCEPT !.b_right_trigger = IF state = Down THEN U8_MAX ELSE @]
    [] OTHER ->
         LET button_flag == ControllerButton[button]
         IN  [rep EXCEPT !.w_buttons = IF state = Down THEN BitOr(@, button_flag)
                                                        ELSE BitAndNot(@, button_flag)]

\* faulty variant: Up clears the whole button mask
HandleButtonClearsMask(rep, button, state) ==
  CASE button = "LeftTrigger" ->
         [rep EXCEPT !.b_left_trigger = IF state = Down THEN U8_MAX ELSE 0]
    [] button = "RightTrigger" ->
         [rep EXCEPT !.b_right_trigger = IF state = Down THEN U8_MAX ELSE 0]
    [] OTHER ->
         [rep EXCEPT !.w_buttons = IF state = Down THEN BitOr(@, ControllerButton[button])
                                                    ELSE 0]

\* the second match, on the controller button
HandleButton(rep, button, state) ==
  CASE button = "LeftTrigger" ->
         [rep EXCEPT !.b_left_trigger = IF state = Down THEN U8_MAX ELSE 0]
    [] button = "RightTrigger" ->
         [rep EXCEPT !.b_right_trigger = IF state = Down THEN U8_MAX ELSE 0]
    [] OTHER ->
         LET button_flag == ControllerButton[button]
         IN  [rep EXCEPT !.w_buttons = IF state = Down THEN BitOr(@, button_flag)
                                                        ELSE BitAndNot(@, button_flag)]

\* faulty variant: a bind without an entry is treated as Button(A)
HandleBindDefaultsToA(st, bind, state) ==
  IF bind \notin DOMAIN config.binds
    THEN [st EXCEPT !.report = HandleButton(@, "A", state)]
    ELSE LET action == config.binds[bind]
         IN  CASE action.kind = "Button" ->
                    [st EXCEPT !.report = HandleButton(@, action.button, state)]
               [] action.kind = "AnalogLeft" ->
                    [st EXCEPT !.analog_state = HandleAnalog(@, bind, state, Left, action.x, action.y)]
               [] action.kind = "AnalogRight" ->
                    [st EXCEPT !.analog_state = HandleAnalog(@, bind, state, Right, action.x, action.y)]

\* faulty variant: a bind mapped to a Button also gets an entry on Down
HandleBindButtonInsertsEntry(st, bind, state) ==
  IF bind \notin DOMAIN config.binds
    THEN st
    ELSE LET action == config.binds[bind]
         IN  CASE action.kind = "Button" ->
                    [st EXCEPT !.report = HandleButton(@, action.button, state),
                               !.analog_state = HandleAnalog(@, bind, state, Left, 0, 0)]
               [] action.kind = "AnalogLeft" ->
                    [st EXCEPT !.analog_state = HandleAnalog(@, bind, state, Left, action.x, action.y)]
               [] action.kind = "AnalogRight" ->
                    [st EXCEPT !.analog_state = HandleAnalog(@, bind, state, Right, action.x, action.y)]

\* st is the pair of fields handle_bind may write
HandleBind(st, bind, state) ==
  IF bind \notin DOMAIN config.binds
    THEN st
    ELSE LET action == config.binds[bind]
         IN  CASE action.kind = "Button" ->
                    [st EXCEPT !.report = HandleButton(@, action.button, state)]
               [] action.kind = "AnalogLeft" ->
                    [st EXCEPT !.analog_state = HandleAnalog(@, bind, state, Left, action.x, action.y)]
               [] action.kind = "AnalogRight" ->
                    [st EXCEPT !.analog_state = HandleAnalog(@, bind, state, Right, action.x, action.y)]

Fields == [report |-> report, analog_state |-> analog_state]

RECURSIVE ApplyCalls(_, _)
ApplyCalls(st, calls) ==
  IF calls = <<>> THEN st
  ELSE ApplyCalls(HandleBind(st, calls[1][1], calls[1][2]), Tail(calls))

\* ------------------------------------------------ run: Event::MouseButton ---
ButtonStates(mbs, button, state) ==
  <<IF button = "Left" THEN state ELSE mbs[1],
    IF button = "Right" THEN state ELSE mbs[2]>>

\* faulty variant: the fix also fires on Down events
FixCallsAnyState(mbs, state) ==
  IF config.mouse_button_fix
    THEN (IF mbs[1] = Down THEN <<<<Mouse("Left"), Down>>>> ELSE <<>>) \o
         (IF mbs[2] = Down THEN <<<<Mouse("Right"), Down>>>> ELSE <<>>)
    ELSE <<>>

\* the synthetic transitions of the mouse-button fix; mbs is already updated
FixCalls(mbs, state) ==
  IF config.mouse_button_fix /\ state = Up
    THEN (IF mbs[1] = Down THEN <<<<Mouse("Left"), Down>>>> ELSE <<>>) \o
         (IF mbs[2] = Down THEN <<<<Mouse("Right"), Down>>>> ELSE <<>>)
    ELSE <<>>

\* -------------------------------------------------------- update_analog ---
\* faulty variant: a sample whose age equals the window is evicted too
RECURSIVE EvictAtWindow(_, _)
EvictAtWindow(samples, t) ==
  IF samples = <<>> THEN <<>>
  ELSE IF t - samples[1][3] >= SampleWindow THEN EvictAtWindow(Tail(samples), t)
       ELSE samples

\* the eviction loop; a sample is the tuple (x, y, t)
RECURSIVE Evict(_, _)
Evict(samples, t) ==
  IF samples = <<>> THEN <<>>
  ELSE IF t - samples[1][3] > SampleWindow THEN Evict(Tail(samples), t)
       ELSE samples

RECURSIVE SumSamples(_, _)
SumSamples(samples, i) ==
  IF samples = <<>> THEN 0 ELSE samples[1][i] + SumSamples(Tail(samples), i)

\* mouse_vel after the multiplier, as numerators over Den
MouseVel(samples) ==
  <<SumSamples(samples, 1) * Sensitivity, SumSamples(samples, 2) * Sensitivity>>

GetMouseMoveBind ==
  LET bind == config.binds[MouseMove]
  IN  CASE bind.kind = "AnalogLeft" -> AnalogState(Left, bind.x, bind.y)
        [] bind.kind = "AnalogRight" -> AnalogState(Right, bind.x, bind.y)
        [] OTHER -> AnalogState(Left, 0, 0)

\* faulty variant: an entry that exists is left as it is
UpdateMouseStateInsertsOnly(an, mouse_vel) ==
  LET mouse_bind == GetMouseMoveBind
  IN  IF MouseMove \in DOMAIN an
        THEN an
        ELSE Insert(an, MouseMove,
                    AnalogState(mouse_bind.analog_type,
                                mouse_bind.x * mouse_vel[1], mouse_bind.y * mouse_vel[2]))

UpdateMouseState(an, mouse_vel) ==
  LET mouse_bind == GetMouseMoveBind
  IN  IF MouseMove \in DOMAIN an
        THEN [an EXCEPT ![MouseMove].x = mouse_bind.x * mouse_vel[1],
                        ![MouseMove].y = mouse_bind.y * mouse_vel[2]]
        ELSE Insert(an, MouseMove,
                    AnalogState(mouse_bind.analog_type,
                                mouse_bind.x * mouse_vel[1], mouse_bind.y * mouse_vel[2]))

\* faulty variant: every entry is added to both stick totals
RECURSIVE SumStatesAnyStick(_, _, _)
SumStatesAnyStick(an, keys, t) ==
  IF keys = {} THEN AnalogState(t, 0, 0)
  ELSE LET k == CHOOSE j \in keys : TRUE
           rest == SumStatesAnyStick(an, keys \ {k}, t)
       IN  AnalogState(t, rest.x + an[k].x, rest.y + an[k].y)

RECURSIVE SumStates(_, _, _)
SumStates(an, keys, t) ==
  IF keys = {} THEN AnalogState(t, 0, 0)
  ELSE LET k == CHOOSE j \in keys : TRUE
           rest == SumStates(an, keys \ {k}, t)
       IN  IF an[k].analog_type = t
             THEN AnalogState(t, rest.x + an[k].x, rest.y + an[k].y)
             ELSE rest

\* states.0 and states.1 after the summing loop
States(an) == <<SumStates(an, DOMAIN an, Left), SumStates(an, DOMAIN an, Right)>>

\* ----------------------------------------------------------- set_analog ---
Abs(n) == IF n < 0 THEN -n ELSE n
Max(a, b) == IF a >= b THEN a ELSE b

\* faulty variant: the cast wraps around modulo 2^16 instead of saturating
AsI16Wraps(num, den) ==
  LET q == IF num >= 0 THEN num \div den ELSE -((-num) \div den)
  IN  ((q - I16_MIN) % (I16_MAX - I16_MIN + 1)) + I16_MIN

\* faulty variant: the cast rounds toward minus infinity
AsI16Floors(num, den) ==
  LET q == num \div den
  IN  IF q > I16_MAX THEN I16_MAX ELSE IF q < I16_MIN THEN I16_MIN ELSE q

\* (num / den) as i16 : truncation toward zero, then saturation
AsI16(num, den) ==
  LET q == IF num >= 0 THEN num \div den ELSE -((-num) \div den)
  IN  IF q > I16_MAX THEN I16_MAX ELSE IF q < I16_MIN THEN I16_MIN ELSE q

\* faulty variant: a total equal to the threshold does not raise the alert
AlertAboveOnly(state) ==
  ThresholdDen * Max(Abs(state.x), Abs(state.y)) > ThresholdNum * Den

Alert(state) ==
  ThresholdDen * Max(Abs(state.x), Abs(state.y)) >= ThresholdNum * Den

WriteStick(rep, t, ox, oy) ==
  IF t = Left THEN [rep EXCEPT !.s_thumb_lx = ox, !.s_thumb_ly = oy]
              ELSE [rep EXCEPT !.s_thumb_rx = ox, !.s_thumb_ry = oy]

SetAnalogCircularized(rep, state) ==
  WriteStick(rep, state.analog_type,
             AsI16(state.x * ANALOG_MAX, Den), AsI16(state.y * ANALOG_MAX, Den))

SetAnalogLinear(rep, state) ==
  IF Abs(state.x) <= Den /\ Abs(state.y) <= Den
    THEN WriteStick(rep, state.analog_type,
                    AsI16(state.x * ANALOG_MAX, Den), AsI16(state.y * ANALOG_MAX, Den))
    ELSE LET overshoot == Max(Abs(state.x), Abs(state.y))
         IN  WriteStick(rep, state.analog_type,
                        AsI16(state.x * ANALOG_MAX, overshoot),
                        AsI16(state.y * ANALOG_MAX, overshoot))

SetAnalog(rep, state) ==
  IF config.analog_circularize THEN SetAnalogCircularized(rep, state)
                               ELSE SetAnalogLinear(rep, state)

\* faulty variant: the Right stick is evaluated first
ToneCallsRightFirst(states) ==
  IF config.oversteer_alert_enabled THEN <<Alert(states[2]), Alert(states[1])>> ELSE <<>>

\* the enable calls set_analog makes on the tone generator
ToneCalls(states) ==
  IF config.oversteer_alert_enabled THEN <<Alert(states[1]), Alert(states[2])>> ELSE <<>>

\* ToneGenerator: one enable state, which each enable(flag) call overwrites;
\* the state after the calls of a tick, prev being the state before them
ToneEnabled(prev, calls) == IF calls = <<>> THEN prev ELSE calls[Len(calls)]

\* the report after set_analog(states.0); set_analog(states.1)
Shaped(rep, an) == SetAnalog(SetAnalog(rep, States(an)[1]), States(an)[2])

\* ------------------------------------------------------------------ run ---
\* faulty variant: the channel is drained and the latest event is taken
RecvLatest(q) == [event |-> q[Len(q)], rest |-> <<>>]

\* faulty variant: the head is read but stays in the channel
RecvKeepsHead(q) == [event |-> Head(q), rest |-> q]

\* a successful try_recv: the event taken and the events left
Recv(q) == [event |-> Head(q), rest |-> Tail(q)]

\* faulty variant: a tick without an event goes straight to the flush
TryRecvSkipsIdle ==
  /\ pc = "try_recv"
  /\ IF rx # <<>>
       THEN /\ event' = Recv(rx).event
            /\ rx' = Recv(rx).rest
            /\ pc' = "match_event"
            /\ tick_log' = <<"try_recv">>
       ELSE /\ event' = NoEvent
            /\ rx' = rx
            /\ pc' = "vigem_update"
            /\ tick_log' = <<>>
  /\ UNCHANGED <<_config, config, connected, produced, now, report, mouse_samples,
                 mouse_button_states, analog_state, bind_calls, evicted, tone_calls,
                 sink, result>>

\* try_recv and the spin loop: an event is taken, or the spin period ends
TryRecv ==
  /\ pc = "try_recv"
  /\ IF rx # <<>>
       THEN /\ event' = Recv(rx).event
            /\ rx' = Recv(rx).rest
            /\ pc' = "match_event"
            /\ tick_log' = <<"try_recv">>
       ELSE /\ event' = NoEvent
            /\ rx' = rx
            /\ pc' = "update_analog"
            /\ tick_log' = <<>>
  /\ UNCHANGED <<_config, config, connected, produced, now, report, mouse_samples,
                 mouse_button_states, analog_state, bind_calls, evicted, tone_calls,
                 sink, result>>

\* Event::MouseMove => handle_mouse_move
OnMouseMove ==
  /\ pc = "match_event"
  /\ event.kind = "MouseMove"
  /\ mouse_samples' = Append(mouse_samples, <<event.x, event.y, now>>)
  /\ pc' = "update_analog"
  /\ tick_log' = Append(tick_log, "handle")
  /\ UNCHANGED <<_config, config, rx, connected, produced, now, event, report,
                 mouse_button_states, analog_state, bind_calls, evicted, tone_calls,
                 sink, result>>

\* Event::MouseButton
OnMouseButton ==
  /\ pc = "match_event"
  /\ event.kind = "MouseButton"
  /\ LET mbs == ButtonStates(mouse_button_states, event.code, event.state)
         calls == <<<<Mouse(event.code), event.state>>>> \o FixCalls(mbs, event.state)
         st == ApplyCalls(Fields, calls)
     IN  /\ mouse_button_states' = mbs
         /\ bind_calls' = calls
         /\ report' = st.report
         /\ analog_state' = st.analog_state
  /\ pc' = "update_analog"
  /\ tick_log' = Append(tick_log, "handle")
  /\ UNCHANGED <<_config, config, rx, connected, produced, now, event, mouse_samples,
                 evicted, tone_calls, sink, result>>

\* Event::Keyboard
OnKeyboard ==
  /\ pc = "match_event"
  /\ event.kind = "Keyboard"
  /\ LET calls == <<<<Keyboard(event.code), event.state>>>>
         st == ApplyCalls(Fields, calls)
     IN  /\ bind_calls' = calls
         /\ report' = st.report
         /\ analog_state' = st.analog_state
  /\ pc' = "update_analog"
  /\ tick_log' = Append(tick_log, "handle")
  /\ UNCHANGED <<_config, config, rx, connected, produced, now, event, mouse_samples,
                 mouse_button_states, evicted, tone_calls, sink, result>>

\* faulty variant: Reset also drops the AnalogState entries
OnResetClearsAnalog ==
  /\ pc = "match_event"
  /\ event.kind = "Reset"
  /\ mouse_button_states' = <<Up, Up>>
  /\ report' = XUSBReportDefault
  /\ analog_state' = EmptyMap
  /\ pc' = "update_analog"
  /\ tick_log' = Append(tick_log, "handle")
  /\ UNCHANGED <<_config, config, rx, connected, produced, now, event, mouse_samples,
                 bind_calls, evicted, tone_calls, sink, result>>

\* faulty variant: Reset clears the remembered mouse buttons only
OnResetKeepsReport ==
  /\ pc = "match_event"
  /\ event.kind = "Reset"
  /\ mouse_button_states' = <<Up, Up>>
  /\ pc' = "update_analog"
  /\ tick_log' = Append(tick_log, "handle")
  /\ UNCHANGED <<_config, config, rx, connected, produced, now, event, report,
                 mouse_samples, analog_state, bind_calls, evicted, tone_calls, sink,
                 result>>

\* Event::Reset
OnReset ==
  /\ pc = "match_event"
  /\ event.kind = "Reset"
  /\ mouse_button_states' = <<Up, Up>>
  /\ report' = XUSBReportDefault
  /\ pc' = "update_analog"
  /\ tick_log' = Append(tick_log, "handle")
  /\ UNCHANGED <<_config, config, rx, connected, produced, now, event, mouse_samples,
                 analog_state, bind_calls, evicted, tone_calls, sink, result>>

\* self.update_analog()
UpdateAnalog ==
  /\ pc = "update_analog"
  /\ LET kept == Evict(mouse_samples, now)
         an == UpdateMouseState(analog_state, MouseVel(kept))
     IN  /\ mouse_samples' = kept
         /\ evicted' = Len(mouse_samples) - Len(kept)
         /\ analog_state' = an
         /\ tone_calls' = ToneCalls(States(an))
         /\ report' = Shaped(report, an)
  /\ pc' = "vigem_update"
  /\ tick_log' = Append(tick_log, "update_analog")
  /\ UNCHANGED <<_config, config, rx, connected, produced, now, event,
                 mouse_button_states, bind_calls, sink, result>>

\* self.vigem.update(&self.target, &self.report) returns Ok; the iteration
\* ends and its locals are dropped
VigemUpdateOk ==
  /\ pc = "vigem_update"
  /\ sink' = report
  /\ pc' = "try_recv"
  /\ event' = NoEvent
  /\ bind_calls' = <<>>
  /\ evicted' = 0
  /\ tone_calls' = <<>>
  /\ tick_log' = <<>>
  /\ UNCHANGED <<_config, config, rx, connected, produced, now, report,
                 mouse_samples, mouse_button_states, analog_state, result>>

\* faulty variant: the error is noted and the loop goes on
VigemUpdateErrIgnored ==
  /\ pc = "vigem_update"
  /\ result' = "Err"
  /\ pc' = "try_recv"
  /\ event' = NoEvent
  /\ bind_calls' = <<>>
  /\ evicted' = 0
  /\ tone_calls' = <<>>
  /\ tick_log' = <<>>
  /\ UNCHANGED <<_config, config, rx, connected, produced, now, report,
                 mouse_samples, mouse_button_states, analog_state, sink>>

\* self.vigem.update(..) returns Err, which `?` returns from run
VigemUpdateErr ==
  /\ pc = "vigem_update"
  /\ result' = "Err"
  /\ pc' = "returned"
  /\ tick_log' = Append(tick_log, "vigem_update")
  /\ UNCHANGED <<_config, config, rx, connected, produced, now, event, report,
                 mouse_samples, mouse_button_states, analog_state, bind_calls, evicted,
                 tone_calls, sink>>

Run == TryRecv \/ OnMouseMove \/ OnMouseButton \/ OnKeyboard \/ OnReset
         \/ UpdateAnalog \/ VigemUpdateOk \/ VigemUpdateErr

Next ==
  \/ SendMouseMove
  \/ SendMouseButton
  \/ SendKeyboard
  \/ SendReset
  \/ Disconnect
  \/ Advance
  \/ TryRecv
  \/ OnMouseMove
  \/ OnMouseButton
  \/ OnKeyboard
  \/ OnReset
  \/ UpdateAnalog
  \/ VigemUpdateOk
  \/ VigemUpdateErr

Spec == Init /\ [][Next]_vars

\* ------------------------------------------------- draining a backlog ---
\* the events the input thread sends
Events ==
  {MouseMoveEv(d[1], d[2]) : d \in MouseDeltas} \cup
  {MouseButtonEv(b, s) : b \in MouseButton, s \in KeyState} \cup
  {KeyboardEv(c, s) : c \in ScanCode, s \in KeyState} \cup
  {ResetEv}

Backlogs == UNION {[1..n -> Events] : n \in 0..MaxQueue}

\* the input thread has sent a backlog and ended before run's first tick
BacklogInit ==
  /\ _config \in Configs
  /\ config = New(_config)
  /\ rx \in Backlogs
  /\ connected = FALSE
  /\ produced = Len(rx)
  /\ now = 0
  /\ pc = "try_recv"
  /\ event = NoEvent
  /\ report = XUSBReportDefault
  /\ mouse_samples = <<>>
  /\ mouse_button_states = <<Up, Up>>
  /\ analog_state = EmptyMap
  /\ bind_calls = <<>>
  /\ evicted = 0
  /\ tone_calls = <<>>
  /\ tick_log = <<>>
  /\ sink = NoReport
  /\ result = "running"

\* the clock and the loop; nothing is sent any more
DrainNext ==
  \/ Advance
  \/ TryRecv
  \/ OnMouseMove
  \/ OnMouseButton
  \/ OnKeyboard
  \/ OnReset
  \/ UpdateAnalog
  \/ VigemUpdateOk
  \/ VigemUpdateErr

\* run is a thread of its own that is never suspended for good: a step of
\* the loop that stays possible is eventually taken
DrainSpec == BacklogInit /\ [][DrainNext]_vars /\ WF_vars(Run)

\* ------------------------------------------------- shaping of one sample ---
\* The mouse deltas whose shaping is examined: with sensitivity 5 and the
\* 20 ms window a delta d gives the velocity d / 40
ShapeDeltas == {-80, -60, -40, -3, 0, 3, 20, 40, 60, 80}

\* run has just handled MouseMove(dx, dy), the first event, at time 0
ShapeInit ==
  /\ _config \in Configs
  /\ config = New(_config)
  /\ rx = <<>>
  /\ connected = TRUE
  /\ produced = 1
  /\ now = 0
  /\ pc = "update_analog"
  /\ \E dx \in ShapeDeltas, dy \in ShapeDeltas :
       /\ event = MouseMoveEv(dx, dy)
       /\ mouse_samples = <<<<dx, dy, 0>>>>
  /\ report = XUSBReportDefault
  /\ mouse_button_states = <<Up, Up>>
  /\ analog_state = EmptyMap
  /\ bind_calls = <<>>
  /\ evicted = 0
  /\ tone_calls = <<>>
  /\ tick_log = <<"try_recv", "handle">>
  /\ sink = NoReport
  /\ result = "running"

\* the ticks that follow, without further events
ShapeNext ==
  \/ Advance
  \/ TryRecv
  \/ UpdateAnalog
  \/ VigemUpdateOk

ShapeSpec == ShapeInit /\ [][ShapeNext]_vars

TypeOK ==
  /\ pc \in {"try_recv", "match_event", "update_analog", "vigem_update", "returned"}
  /\ Len(rx) <= MaxQueue
  /\ now \in 0..MaxTime

\* =============================================================== claims ===
IsAnalog(bind) ==
  bind \in DOMAIN config.binds /\ config.binds[bind].kind \in {"AnalogLeft", "AnalogRight"}
IsButton(bind) ==
  bind \in DOMAIN config.binds /\ config.binds[bind].kind = "Button"

\* the binds an event can hand to handle_bind
EventBinds == {Keyboard(c) : c \in ScanCode} \cup {Mouse(b) : b \in MouseButton}

\* the momentary entry the table configures for an analog bind
Configured(bind) ==
  AnalogState(IF config.binds[bind].kind = "AnalogLeft" THEN Left ELSE Right,
              config.binds[bind].x * Den, config.binds[bind].y * Den)

\* the event of this iteration has been handled
Handled == event.kind # "Err" /\ pc \in {"update_analog", "vigem_update", "returned"}

\* C1: for a bind mapped to AnalogLeft or AnalogRight, handling an Up removes
\* the bind's entry if there is one and otherwise leaves the AnalogState map
\* unchanged (stated for the Keyboard events, whose handling is one transition).
C1_UpRemovesOrNoop ==
  [][(/\ pc = "match_event"
      /\ event.kind = "Keyboard"
      /\ event.state = Up
      /\ IsAnalog(Keyboard(event.code)))
     => analog_state' = IF Keyboard(event.code) \in DOMAIN analog_state
                          THEN Remove(analog_state, Keyboard(event.code))
                          ELSE analog_state]_vars

Sticks(rep) == <<rep.s_thumb_lx, rep.s_thumb_ly, rep.s_thumb_rx, rep.s_thumb_ry>>

\* C2 as claimed: once Reset is handled the report is all zero and both
\* remembered mouse buttons are Up, and the report flushed in the tick that
\* consumed Reset is all zero.
C2_ResetAllZero ==
  [][/\ (pc = "match_event" /\ event.kind = "Reset" /\ pc' = "update_analog")
          => report' = XUSBReportDefault /\ mouse_button_states' = <<Up, Up>>
     /\ (pc = "vigem_update" /\ event.kind = "Reset" /\ pc' = "try_recv")
          => sink' = XUSBReportDefault]_vars

\* C2 as amended: right after the Reset handler the whole report is zero and
\* both remembered mouse buttons are Up; in the report flushed in that tick the
\* button mask and both triggers are zero, and the stick axes are those the
\* aggregation of that tick computes from the AnalogState entries and mouse
\* samples, which Reset does not clear.
C2_ResetZeroesButtons ==
  [][/\ (pc = "match_event" /\ event.kind = "Reset" /\ pc' = "update_analog")
          => report' = XUSBReportDefault /\ mouse_button_states' = <<Up, Up>>
     /\ (pc = "vigem_update" /\ event.kind = "Reset" /\ pc' = "try_recv")
          => /\ sink'.w_buttons = 0
             /\ sink'.b_left_trigger = 0
             /\ sink'.b_right_trigger = 0
             /\ sink' = Shaped(XUSBReportDefault, analog_state)
             /\ mouse_button_states' = <<Up, Up>>]_vars

\* the tick that consumed Reset is about to flush a report whose stick axes
\* are not zero
C2_Witness ==
  /\ event.kind = "Reset"
  /\ pc = "vigem_update"
  /\ report.w_buttons = 0
  /\ Sticks(report) # <<0, 0, 0, 0>>

\* C3: after the real transition, a MouseButton event issues a synthetic Down
\* for exactly the Left / Right binds whose remembered state is Down, only
\* with the fix enabled and on an Up event; a synthetic Up is never issued.
C3_FixReasserts ==
  (event.kind = "MouseButton" /\ Handled) =>
    LET synth == {i \in 2..Len(bind_calls) : TRUE}
        held == {b \in {"Left", "Right"} :
                   mouse_button_states[IF b = "Left" THEN 1 ELSE 2] = Down}
        due == IF config.mouse_button_fix /\ event.state = Up THEN held ELSE {}
    IN  /\ Len(bind_calls) >= 1
        /\ bind_calls[1] = <<Mouse(event.code), event.state>>
        /\ \A i \in synth : bind_calls[i][2] = Down
        /\ {bind_calls[i][1] : i \in synth} = {Mouse(b) : b \in due}
        /\ Cardinality(synth) = Cardinality(due)

\* Left and Right were both Down, Right went Up: Down is re-issued for Left only
C3_Witness ==
  /\ event = MouseButtonEv("Right", Up)
  /\ Handled
  /\ mouse_button_states = <<Down, Up>>
  /\ bind_calls = <<<<Mouse("Right"), Up>>, <<Mouse("Left"), Down>>>>

Bit(m, i) == (m \div (2 ^ i)) % 2

\* C4: for a bind mapped to Button(c), Down sets the trigger byte to 255 or
\* exactly c's bit, Up sets the byte to 0 or clears exactly that bit, Down then
\* Up leaves it cleared, and nothing else of the report or the AnalogState map
\* changes.
C4_ButtonFrame ==
  \A bind \in EventBinds : IsButton(bind) =>
    LET c == config.binds[bind].button
        downup == HandleBind(HandleBind(Fields, bind, Down), bind, Up).report
    IN  /\ \A s \in KeyState :
             LET st == HandleBind(Fields, bind, s)
                 r == st.report
             IN  /\ st.analog_state = analog_state
                 /\ Sticks(r) = Sticks(report)
                 /\ CASE c = "LeftTrigger" ->
                           /\ r.b_left_trigger = IF s = Down THEN 255 ELSE 0
                           /\ r.b_right_trigger = report.b_right_trigger
                           /\ r.w_buttons = report.w_buttons
                      [] c = "RightTrigger" ->
                           /\ r.b_right_trigger = IF s = Down THEN 255 ELSE 0
                           /\ r.b_left_trigger = report.b_left_trigger
                           /\ r.w_buttons = report.w_buttons
                      [] OTHER ->
                           /\ r.b_left_trigger = report.b_left_trigger
                           /\ r.b_right_trigger = report.b_right_trigger
                           /\ \A i \in 0..15 :
                                Bit(r.w_buttons, i) =
                                  IF 2 ^ i = ControllerButton[c]
                                    THEN (IF s = Down THEN 1 ELSE 0)
                                    ELSE Bit(report.w_buttons, i)
        /\ CASE c = "LeftTrigger" -> downup.b_left_trigger = 0
             [] c = "RightTrigger" -> downup.b_right_trigger = 0
             [] OTHER -> ~HasBit(downup.w_buttons, ControllerButton[c])

\* a mask button was released by a MouseButton Up while another mask button is held
C4_Witness ==
  /\ pc = "update_analog"
  /\ event.kind = "MouseButton"
  /\ event.state = Up
  /\ IsButton(Mouse(event.code))
  /\ report.w_buttons # 0
  /\ ~HasBit(report.w_buttons, ControllerButton[config.binds[Mouse(event.code)].button])

\* C5: for a bind mapped to an Analog action, Down leaves exactly one entry
\* keyed by the bind with the configured stick and factors; a repeated Down
\* overwrites it, so the stick total counts the bind once.
C5_DownUpsertsOnce ==
  /\ \A bind \in EventBinds : IsAnalog(bind) =>
       LET a1 == HandleBind(Fields, bind, Down).analog_state
           a2 == HandleBind(HandleBind(Fields, bind, Down), bind, Down).analog_state
           without == Remove(analog_state, bind)
           t == IF Configured(bind).analog_type = Left THEN 1 ELSE 2
       IN  /\ DOMAIN a1 = DOMAIN analog_state \cup {bind}
           /\ a1[bind] = Configured(bind)
           /\ \A k \in DOMAIN without : a1[k] = analog_state[k]
           /\ a2 = a1
           /\ States(a2)[t].x = States(without)[t].x + Configured(bind).x
           /\ States(a2)[t].y = States(without)[t].y + Configured(bind).y
           /\ States(a2)[3 - t] = States(without)[3 - t]
  /\ Handled =>
       \A i \in 1..Len(bind_calls) :
         (/\ IsAnalog(bind_calls[i][1])
          /\ bind_calls[i][2] = Down
          /\ \A j \in (i + 1)..Len(bind_calls) : bind_calls[j][1] # bind_calls[i][1])
         => /\ bind_calls[i][1] \in DOMAIN analog_state
            /\ analog_state[bind_calls[i][1]] = Configured(bind_calls[i][1])

\* the mouse-button fix re-asserted Down on an analog bind that already had its entry
C5_Witness ==
  /\ pc = "update_analog"
  /\ Len(bind_calls) = 2
  /\ bind_calls[1][1] # bind_calls[2][1]
  /\ IsAnalog(bind_calls[2][1])
  /\ analog_state[bind_calls[2][1]] = Configured(bind_calls[2][1])

SamplesSorted(samples) ==
  \A i \in 1..Len(samples) - 1 : samples[i][3] <= samples[i + 1][3]

\* C6: the eviction of a tick at time T removes a prefix of the queue; every
\* removed sample has age T - t > W and every retained one has age <= W (the
\* queue holds non-decreasing timestamps).
C6_EvictionWindow ==
  [][(pc = "update_analog" /\ pc' = "vigem_update") =>
       /\ SamplesSorted(mouse_samples)
       /\ \E k \in 0..Len(mouse_samples) :
            /\ mouse_samples' = SubSeq(mouse_samples, k + 1, Len(mouse_samples))
            /\ \A i \in 1..k : now - mouse_samples[i][3] > SampleWindow
            /\ \A i \in (k + 1)..Len(mouse_samples) :
                 now - mouse_samples[i][3] <= SampleWindow]_vars

\* a tick evicted a sample and kept one whose age is exactly the window
C6_Witness ==
  /\ pc = "vigem_update"
  /\ evicted >= 1
  /\ mouse_samples # <<>>
  /\ now - mouse_samples[1][3] = SampleWindow

\* C7: a tick removes at most one event from the channel, the head, and only
\* at its try_recv; no further event is removed before the tick has run
\* update_analog and the flush.
C7_OneEventPerTick ==
  [][/\ Len(rx') >= Len(rx) - 1
     /\ Len(rx') < Len(rx) =>
          /\ pc = "try_recv"
          /\ pc' = "match_event"
          /\ event' = Head(rx)
          /\ rx' = Tail(rx)
     /\ pc' = "try_recv" => pc \in {"try_recv", "vigem_update"}]_vars

\* a tick that took one event is about to flush while events are still queued
C7_Witness ==
  /\ pc = "vigem_update"
  /\ tick_log = <<"try_recv", "handle", "update_analog">>
  /\ Len(rx) >= 1

TickShapes ==
  { <<"update_analog", "vigem_update">>,
    <<"try_recv", "handle", "update_analog", "vigem_update">> }

\* C8: every tick, with or without an event, runs update_analog once and then
\* the sink update once, after the event handling; the report the sink took
\* carries the stick axes update_analog computed in that tick.
C8_AggregateThenFlush ==
  /\ pc = "match_event" => tick_log = <<"try_recv">>
  /\ pc = "update_analog" => tick_log \in {<<>>, <<"try_recv", "handle">>}
  /\ pc = "vigem_update" =>
       /\ Append(tick_log, "vigem_update") \in TickShapes
       /\ report = Shaped(report, analog_state)
  /\ pc = "returned" => tick_log \in TickShapes
  /\ pc = "try_recv" =>
       /\ tick_log = <<>>
       /\ \/ sink = NoReport /\ report = XUSBReportDefault
          \/ sink = report /\ report = Shaped(report, analog_state)

\* a tick without an event is about to flush stick axes that differ from the
\* ones flushed before
C8_Witness ==
  /\ pc = "vigem_update"
  /\ tick_log = <<"update_analog">>
  /\ sink # NoReport
  /\ Sticks(sink) # Sticks(report)

\* C9: a failed sink update ends the loop in that tick with the error: no
\* retry, and afterwards no dequeue, no mutation, no report.  Nothing else
\* ends the loop: with an empty channel, a dropped Sender or a Reset the loop
\* always has a next step.
C9_SinkFailureEndsLoop ==
  [][/\ result = "Err" <=> pc = "returned"
     /\ result' = "Err" <=> pc' = "returned"
     /\ pc = "try_recv" => ENABLED TryRecv
     /\ (pc = "match_event" /\ event.kind = "Reset") => ENABLED OnReset
     /\ pc = "returned" => (UNCHANGED engine /\ Len(rx') >= Len(rx))
     /\ (pc' = "returned" /\ pc # "returned") =>
          /\ pc = "vigem_update"
          /\ UNCHANGED <<report, sink, mouse_samples, analog_state,
                         mouse_button_states, rx>>]_vars

\* the loop has returned the error with an event left in the channel
C9_Witness ==
  /\ pc = "returned"
  /\ result = "Err"
  /\ rx # <<>>
  /\ ~connected

\* C10: the table of the engine maps MouseMove to an Analog action:
\* AnalogRight(1.0, -1.0) when the configuration omits it or maps it to a
\* Button, the configured action otherwise; every other binding is as
\* configured; this holds in every state, so no event or tick changes it.
C10_MouseMoveAnalog ==
  LET raw == _config.binds
      table == config.binds
  IN  /\ DOMAIN table = DOMAIN raw \cup {MouseMove}
      /\ table[MouseMove].kind \in {"AnalogLeft", "AnalogRight"}
      /\ (MouseMove \notin DOMAIN raw) => table[MouseMove] = AnalogRight(1, -1)
      /\ (MouseMove \in DOMAIN raw /\ raw[MouseMove].kind = "Button")
           => table[MouseMove] = AnalogRight(1, -1)
      /\ (MouseMove \in DOMAIN raw /\ raw[MouseMove].kind # "Button")
           => table[MouseMove] = raw[MouseMove]
      /\ \A b \in DOMAIN raw \ {MouseMove} : table[b] = raw[b]
      /\ config.mouse_button_fix = _config.mouse_button_fix
      /\ config.analog_circularize = _config.analog_circularize

\* MouseMove was configured as a Button, and ticks have run on the replaced table
C10_Witness ==
  /\ MouseMove \in DOMAIN _config.binds
  /\ _config.binds[MouseMove].kind = "Button"
  /\ config.binds[MouseMove] = AnalogRight(1, -1)
  /\ MouseMove \in DOMAIN analog_state
  /\ produced = MaxEvents

\* the stick total reaches the oversteer threshold on one axis at least
AtThreshold(total) ==
  \/ ThresholdDen * Abs(total.x) >= ThresholdNum * Den
  \/ ThresholdDen * Abs(total.y) >= ThresholdNum * Den

\* C11 as claimed: in every tick the tone generator receives exactly one
\* enable call per stick, the Left stick's first and then the Right stick's,
\* each with the flag max(|x|, |y|) >= threshold of that stick's total.
C11_EnableEveryTick ==
  pc = "vigem_update" =>
    tone_calls = <<AtThreshold(States(analog_state)[1]),
                   AtThreshold(States(analog_state)[2])>>

\* C11 as amended: when the oversteer alert is enabled, every tick makes
\* exactly these two enable calls, in this order; when it is disabled there
\* is no tone generator and a tick makes no enable call; no enable call is
\* made outside update_analog.
C11_EnableWhenAlertOn ==
  /\ pc = "vigem_update" =>
       tone_calls = IF config.oversteer_alert_enabled
                      THEN <<AtThreshold(States(analog_state)[1]),
                             AtThreshold(States(analog_state)[2])>>
                      ELSE <<>>
  /\ pc \in {"try_recv", "match_event", "update_analog"} => tone_calls = <<>>

\* the Right stick total is exactly at the threshold and got enable(true)
\* after the Left stick's enable(false)
C11_Witness ==
  /\ pc = "vigem_update"
  /\ config.oversteer_alert_enabled
  /\ ThresholdDen * States(analog_state)[2].x = ThresholdNum * Den
  /\ Abs(States(analog_state)[2].y) < States(analog_state)[2].x
  /\ tone_calls = <<FALSE, TRUE>>

\* the bind a Keyboard or MouseButton event hands to handle_bind
BindOf(e) == IF e.kind = "Keyboard" THEN Keyboard(e.code) ELSE Mouse(e.code)

\* the handler of a Keyboard or MouseButton event whose bind has no entry
UnmappedStep ==
  /\ pc = "match_event"
  /\ pc' = "update_analog"
  /\ event.kind \in {"Keyboard", "MouseButton"}
  /\ BindOf(event) \notin DOMAIN config.binds

\* C12 as claimed: a Keyboard or MouseButton event for a bind without an
\* entry in the table changes neither the report nor the AnalogState map nor
\* the sample queue and raises no error; for a MouseButton event the
\* remembered mouse-button state is all that changes.
C12_UnmappedChangesNothing ==
  [][UnmappedStep =>
       /\ report' = report
       /\ analog_state' = analog_state
       /\ mouse_samples' = mouse_samples
       /\ result' = result
       /\ event.kind = "Keyboard" => mouse_button_states' = mouse_button_states]_vars

\* C12 as amended: the handle_bind call for a bind without an entry changes
\* nothing; a Keyboard event for such a bind changes no state; a MouseButton
\* event for such a button updates the remembered state and, when the fix is
\* enabled and the event is an Up, changes what the synthetic Down for the
\* other button, if remembered Down, changes; no error is raised.
C12_UnmappedOnlyFixActs ==
  [][UnmappedStep =>
       /\ \A s \in KeyState : HandleBind(Fields, BindOf(event), s) = Fields
       /\ mouse_samples' = mouse_samples
       /\ result' = result
       /\ event.kind = "Keyboard" =>
            /\ report' = report
            /\ analog_state' = analog_state
            /\ mouse_button_states' = mouse_button_states
       /\ event.kind = "MouseButton" =>
            LET other == IF event.code = "Left" THEN "Right" ELSE "Left"
                held == mouse_button_states[IF other = "Left" THEN 1 ELSE 2] = Down
            IN  /\ mouse_button_states' =
                     IF event.code = "Left" THEN <<event.state, mouse_button_states[2]>>
                                            ELSE <<mouse_button_states[1], event.state>>
                /\ IF config.mouse_button_fix /\ event.state = Up /\ held
                     THEN [report |-> report', analog_state |-> analog_state'] =
                            HandleBind(Fields, Mouse(other), Down)
                     ELSE report' = report /\ analog_state' = analog_state]_vars

\* an Up of the unmapped right mouse button has set the trigger again that
\* the Up of W had cleared while the left mouse button is held
C12_Witness ==
  /\ pc = "update_analog"
  /\ event = MouseButtonEv("Right", Up)
  /\ Mouse("Right") \notin DOMAIN config.binds
  /\ mouse_button_states = <<Down, Up>>
  /\ sink.b_right_trigger = 0
  /\ report.b_right_trigger = U8_MAX

\* the axes of stick i (1 = Left, 2 = Right) in a report
Axes(rep, i) == IF i = 1 THEN <<rep.s_thumb_lx, rep.s_thumb_ly>>
                         ELSE <<rep.s_thumb_rx, rep.s_thumb_ry>>

\* the divisor of the shaped value: the axis is  total * 32768 / ShapeDen
ShapeDen(total) ==
  LET overshoot == Max(Abs(total.x), Abs(total.y))
  IN  IF config.analog_circularize \/ overshoot <= Den THEN Den ELSE overshoot

\* C13: the conversion to the 16-bit field saturates and never wraps: in both
\* modes every axis written lies in [-32768, 32767], a shaped value above the
\* range is written as 32767 and one below it as -32768, never with the
\* opposite sign; the linear total (2.0, 0.0) is written as (32767, 0) and the
\* circularized total (2.0, -2.0), of radius above 1, as (32767, -32768).
C13_CastSaturates ==
  pc = "vigem_update" =>
    \A i \in {1, 2} :
      LET total == States(analog_state)[i]
          den == ShapeDen(total)
          num == <<total.x * ANALOG_MAX, total.y * ANALOG_MAX>>
          out == Axes(report, i)
      IN  /\ \A a \in {1, 2} :
               /\ out[a] \in I16_MIN..I16_MAX
               /\ num[a] > I16_MAX * den => out[a] = I16_MAX
               /\ num[a] < I16_MIN * den => out[a] = I16_MIN
               /\ num[a] > 0 => out[a] >= 0
               /\ num[a] < 0 => out[a] <= 0
          /\ (~config.analog_circularize /\ total.x = 2 * Den /\ total.y = 0)
               => out = <<I16_MAX, 0>>
          /\ (config.analog_circularize /\ total.x = 2 * Den /\ total.y = -2 * Den)
               => out = <<I16_MAX, I16_MIN>>

\* the linear total (2.0, 0.0) has been written as (32767, 0)
C13_Witness ==
  /\ pc = "vigem_update"
  /\ ~config.analog_circularize
  /\ States(analog_state)[2].x = 2 * Den
  /\ States(analog_state)[2].y = 0
  /\ Axes(report, 2) = <<I16_MAX, 0>>

\* C19 as claimed: in linear mode a stick total with |x| <= 1 and |y| <= 1 is
\* written as round(x * 32768), round(y * 32768) (to the nearest integer,
\* halves away from zero), saturated to 16 bits.
C19_LinearRounds ==
  (pc = "vigem_update" /\ ~config.analog_circularize) =>
    \A i \in {1, 2} :
      LET total == States(analog_state)[i]
          Round(x) == LET q == (2 * Abs(x) * ANALOG_MAX + Den) \div (2 * Den)
                      IN  IF x >= 0 THEN q ELSE -q
          Saturate(q) == IF q > I16_MAX THEN I16_MAX
                         ELSE IF q < I16_MIN THEN I16_MIN ELSE q
      IN  (Abs(total.x) <= Den /\ Abs(total.y) <= Den) =>
            Axes(report, i) = <<Saturate(Round(total.x)), Saturate(Round(total.y))>>

\* C19 as amended: in linear mode a stick total with |x| <= 1 and |y| <= 1 is
\* written as x * 32768 and y * 32768 with the fraction dropped (truncation
\* toward zero), saturated to 16 bits; (0.5, -0.5) is written as
\* (16384, -16384).
C19_LinearTruncates ==
  (pc = "vigem_update" /\ ~config.analog_circularize) =>
    \A i \in {1, 2} :
      LET total == States(analog_state)[i]
          exact == <<total.x * ANALOG_MAX, total.y * ANALOG_MAX>>
          out == Axes(report, i)
      IN  (Abs(total.x) <= Den /\ Abs(total.y) <= Den) =>
            /\ \A a \in {1, 2} :
                 IF exact[a] >= (I16_MAX + 1) * Den
                   THEN out[a] = I16_MAX
                   ELSE /\ Abs(out[a]) * Den <= Abs(exact[a])
                        /\ Abs(exact[a]) < (Abs(out[a]) + 1) * Den
                        /\ exact[a] > 0 => out[a] >= 0
                        /\ exact[a] < 0 => out[a] <= 0
            /\ (2 * total.x = Den /\ 2 * total.y = -Den) => out = <<16384, -16384>>

\* the total (0.075, -0.075), whose products with 32768 are not integers, was
\* written as (2457, -2457)
C19_Witness ==
  /\ pc = "vigem_update"
  /\ ~config.analog_circularize
  /\ States(analog_state)[2].x = 15
  /\ States(analog_state)[2].y = -15
  /\ Axes(report, 2) = <<2457, -2457>>

\* C14: handling Reset leaves the AnalogState map and the sample queue
\* unchanged; a momentary entry stays in the map with the same stick and
\* (x, y), through Reset and every other step, until an Up for its bind is
\* handled, and the tick that handled Reset flushes, for a stick with one
\* entry, the axes shaped from that entry.
C14_ResetKeepsAnalog ==
  [][/\ (pc = "match_event" /\ event.kind = "Reset" /\ pc' = "update_analog")
          => /\ analog_state' = analog_state
             /\ mouse_samples' = mouse_samples
     /\ \A b \in DOMAIN analog_state \ {MouseMove} :
          (b \notin DOMAIN analog_state' \/ analog_state'[b] # analog_state[b])
            => /\ pc = "match_event"
               /\ event.kind \in {"Keyboard", "MouseButton"}
               /\ BindOf(event) = b
               /\ event.state = Up
               /\ b \notin DOMAIN analog_state'
     /\ (pc = "vigem_update" /\ event.kind = "Reset" /\ pc' = "try_recv")
          => \A i \in {1, 2} :
               LET held == {b \in DOMAIN analog_state :
                              analog_state[b].analog_type = (IF i = 1 THEN Left ELSE Right)}
               IN  Cardinality(held) = 1 =>
                     \A b \in held :
                       Axes(sink', i) =
                         Axes(SetAnalog(XUSBReportDefault, analog_state[b]), i)]_vars

\* the tick that handled Reset is about to flush the full Left deflection of
\* the analog key that was held before Reset
C14_Witness ==
  /\ pc = "vigem_update"
  /\ event.kind = "Reset"
  /\ Keyboard("W") \in DOMAIN analog_state
  /\ analog_state[Keyboard("W")] = Configured(Keyboard("W"))
  /\ report.s_thumb_ly = I16_MAX

\* the configured factors, on axis a, of the binds in `binds` that the table
\* maps to stick t
RECURSIVE SumFactors(_, _, _)
SumFactors(binds, t, a) ==
  IF binds = {} THEN 0
  ELSE LET b == CHOOSE j \in binds : TRUE
           c == Configured(b)
       IN  (IF c.analog_type = t THEN (IF a = 1 THEN c.x ELSE c.y) ELSE 0)
             + SumFactors(binds \ {b}, t, a)

\* what the held momentary binds and the retained samples give stick t
ExpectedTotal(t) ==
  LET held == DOMAIN analog_state \ {MouseMove}
      mouse == config.binds[MouseMove]
      on_t == mouse.kind = (IF t = Left THEN "AnalogLeft" ELSE "AnalogRight")
  IN  AnalogState(t,
        SumFactors(held, t, 1)
          + (IF on_t THEN mouse.x * Sensitivity * SumSamples(mouse_samples, 1) ELSE 0),
        SumFactors(held, t, 2)
          + (IF on_t THEN mouse.y * Sensitivity * SumSamples(mouse_samples, 2) ELSE 0))

\* C15: at the end of every tick the axes of each stick are the shaping of
\* the sum of the entries of that stick: the MouseMove entry as recomputed in
\* this tick and every held momentary bind once; an entry never counts for
\* the other stick, and a stick without entries gets (0, 0).
C15_SticksAreShapedSums ==
  pc = "vigem_update" =>
    \A i \in {1, 2} :
      LET t == IF i = 1 THEN Left ELSE Right
          on_t == {b \in DOMAIN analog_state : analog_state[b].analog_type = t}
      IN  /\ Axes(report, i) = Axes(SetAnalog(XUSBReportDefault, ExpectedTotal(t)), i)
          /\ on_t = {} => Axes(report, i) = <<0, 0>>

\* the Left stick carries the held key W alone and the Right stick the sum of
\* the held right mouse button and the mouse motion
C15_Witness ==
  /\ pc = "vigem_update"
  /\ DOMAIN analog_state = {Keyboard("W"), Mouse("Right"), MouseMove}
  /\ mouse_samples # <<>>
  /\ Axes(report, 1) = <<0, I16_MAX>>
  /\ ExpectedTotal(Right).x > Den
  /\ Axes(report, 2) = Axes(SetAnalogLinear(XUSBReportDefault, ExpectedTotal(Right)), 2)

\* C16: every tick overwrites the MouseMove entry with (factor.x * velocity.x,
\* factor.y * velocity.y) of the samples the tick retained, on the stick
\* configured for MouseMove, (0, 0) when no sample is retained; once the first
\* tick has run update_analog the entry is always present, and no event
\* handler removes it, changes its stick or changes its value.
C16_MouseEntryRecomputed ==
  [][LET mouse == config.binds[MouseMove]
         stick == IF mouse.kind = "AnalogLeft" THEN Left ELSE Right
     IN  /\ (pc = "update_analog" /\ pc' = "vigem_update") =>
              /\ MouseMove \in DOMAIN analog_state'
              /\ analog_state'[MouseMove] =
                   AnalogState(stick,
                               mouse.x * Sensitivity * SumSamples(mouse_samples', 1),
                               mouse.y * Sensitivity * SumSamples(mouse_samples', 2))
              /\ mouse_samples' = <<>> => analog_state'[MouseMove] = AnalogState(stick, 0, 0)
         /\ (MouseMove \in DOMAIN analog_state /\ pc # "update_analog") =>
              /\ MouseMove \in DOMAIN analog_state'
              /\ analog_state'[MouseMove] = analog_state[MouseMove]
         /\ (sink' # NoReport \/ pc' \in {"vigem_update", "returned"}) =>
              /\ MouseMove \in DOMAIN analog_state'
              /\ analog_state'[MouseMove].analog_type = stick]_vars

\* the only sample has been evicted and the entry, not zero in the report
\* flushed before, has been overwritten with (0, 0)
C16_Witness ==
  /\ pc = "vigem_update"
  /\ evicted >= 1
  /\ mouse_samples = <<>>
  /\ MouseMove \in DOMAIN analog_state
  /\ analog_state[MouseMove].x = 0
  /\ analog_state[MouseMove].y = 0
  /\ sink # NoReport
  /\ Sticks(sink) # <<0, 0, 0, 0>>
  /\ Sticks(report) = <<0, 0, 0, 0>>

\* C17: with the oversteer alert enabled, the enable state of the tone
\* generator at the end of every tick is the alert flag of the Right stick,
\* whatever it was before: a Left total at or above the threshold leaves the
\* tone disabled when the Right total is below the threshold.
C17_RightStickWins ==
  (pc = "vigem_update" /\ config.oversteer_alert_enabled) =>
    \A prev \in BOOLEAN :
      /\ ToneEnabled(prev, tone_calls) = AtThreshold(States(analog_state)[2])
      /\ (AtThreshold(States(analog_state)[1]) /\ ~AtThreshold(States(analog_state)[2]))
           => ~ToneEnabled(prev, tone_calls)

\* the Left total is over the threshold, the Right total is not, and the
\* tick ends with the tone disabled
C17_Witness ==
  /\ pc = "vigem_update"
  /\ config.oversteer_alert_enabled
  /\ AtThreshold(States(analog_state)[1])
  /\ ~AtThreshold(States(analog_state)[2])
  /\ tone_calls = <<TRUE, FALSE>>
  /\ ~ToneEnabled(TRUE, tone_calls)

\* the controller button c reads as pressed in a report
Pressed(rep, c) ==
  CASE c = "LeftTrigger" -> rep.b_left_trigger # 0
    [] c = "RightTrigger" -> rep.b_right_trigger # 0
    [] OTHER -> HasBit(rep.w_buttons, ControllerButton[c])

\* the button part of a report
Buttons(rep) == <<rep.w_buttons, rep.b_left_trigger, rep.b_right_trigger>>

\* C20: the report keeps no hold count.  An event handler leaves button c
\* pressed exactly when the last of its transitions, real or synthetic, on a
\* bind mapped to Button(c) is a Down, and as it was when it has no such
\* transition; Reset releases every button; no other step changes a button.
\* So c is pressed exactly when the most recent transition on its binds since
\* the last Reset was a Down, and an Up of one of two held binds of c
\* releases c.  The trigger bytes are 0 or 255.
C20_LastTransitionWins ==
  [][/\ report'.b_left_trigger \in {0, U8_MAX}
     /\ report'.b_right_trigger \in {0, U8_MAX}
     /\ IF pc = "match_event" /\ pc' = "update_analog"
          THEN CASE event.kind = "Reset" -> Buttons(report') = <<0, 0, 0>>
                 [] event.kind = "MouseMove" -> Buttons(report') = Buttons(report)
                 [] OTHER ->
                      \A c \in DOMAIN ControllerButton :
                        LET on_c == {i \in 1..Len(bind_calls') :
                                       /\ IsButton(bind_calls'[i][1])
                                       /\ config.binds[bind_calls'[i][1]].button = c}
                        IN  IF on_c = {}
                              THEN Pressed(report', c) = Pressed(report, c)
                              ELSE LET last == CHOOSE i \in on_c : \A j \in on_c : j <= i
                                   IN  Pressed(report', c) = (bind_calls'[last][2] = Down)
          ELSE Buttons(report') = Buttons(report)]_vars

\* W and the left mouse button are both mapped to the right trigger; the Up
\* of W has released the trigger while the left mouse button is still held
C20_Witness ==
  /\ pc = "update_analog"
  /\ event = KeyboardEv("W", Up)
  /\ IsButton(Keyboard("W"))
  /\ IsButton(Mouse("Left"))
  /\ config.binds[Keyboard("W")].button = config.binds[Mouse("Left")].button
  /\ mouse_button_states[1] = Down
  /\ Pressed(sink, "RightTrigger")
  /\ ~Pressed(report, "RightTrigger")

\* the events sent and not yet handled
Backlog == Len(rx) + (IF pc = "match_event" THEN 1 ELSE 0)

\* the step from match_event is the handler of `event`
HandlesEvent ==
  CASE event.kind = "MouseMove" ->
         mouse_samples' = Append(mouse_samples, <<event.x, event.y, now>>)
    [] event.kind = "Reset" ->
         report' = XUSBReportDefault /\ mouse_button_states' = <<Up, Up>>
    [] OTHER ->
         bind_calls'[1] = <<BindOf(event), event.state>>

\* C18: events are handled in the order of the channel, one per tick, none
\* dropped and none twice: a tick that finds events takes the oldest one and
\* runs its handler once before the next tick begins, so the backlog shrinks
\* by exactly one per tick and n events without further arrivals take exactly
\* n ticks; unless the sink fails, the whole backlog is eventually handled.
C18_BacklogDrains ==
  /\ [][ /\ (pc = "try_recv" /\ pc' # "try_recv") =>
              IF rx # <<>>
                THEN /\ pc' = "match_event"
                     /\ event' = Head(rx)
                     /\ rx' = Tail(rx)
                     /\ Backlog' = Backlog
                ELSE pc' = "update_analog" /\ rx' = rx /\ Backlog' = 0
         /\ (pc = "match_event" /\ pc' # "match_event") =>
              /\ pc' = "update_analog"
              /\ HandlesEvent
              /\ Backlog' = Backlog - 1
         /\ pc # "try_recv" => rx' = rx
         /\ pc \notin {"try_recv", "match_event"} => Backlog' = Backlog
         /\ pc' = "match_event" => pc \in {"try_recv", "match_event"}
         /\ pc' = "try_recv" => pc \in {"try_recv", "vigem_update"}]_vars
  /\ <>(Backlog = 0 \/ result = "Err")

\* a backlog of MaxQueue events has been handled and flushed
C18_Witness ==
  /\ produced = MaxQueue
  /\ Backlog = 0
  /\ pc = "try_recv"
  /\ result = "running"
  /\ sink # NoReport
  /\ report.w_buttons # 0

\* C21: in every state each key of the AnalogState map is the MouseMove bind
\* or a bind the table maps to an Analog action; each entry other than
\* MouseMove's carries the stick and the (x, y) factors the table configures
\* for its bind; a bind mapped to a Button or to nothing has no entry; and the
\* map holds no more entries than the table has analog-mapped binds.
C21_AnalogKeysAreAnalogBinds ==
  LET analog == {b \in DOMAIN config.binds : IsAnalog(b)}
  IN  /\ \A k \in DOMAIN analog_state : k = MouseMove \/ IsAnalog(k)
      /\ \A k \in DOMAIN analog_state \ {MouseMove} : analog_state[k] = Configured(k)
      /\ \A b \in EventBinds \cup {MouseMove} :
           (IsButton(b) \/ b \notin DOMAIN config.binds) => b \notin DOMAIN analog_state
      /\ Cardinality(DOMAIN analog_state) <= Cardinality(analog)

\* every analog-mapped bind of the table holds an entry at once, while the
\* bind mapped to a Button is held down and has none
C21_Witness ==
  /\ DOMAIN analog_state = {b \in DOMAIN config.binds : IsAnalog(b)}
  /\ Cardinality(DOMAIN analog_state) = 3
  /\ IsButton(Mouse("Left"))
  /\ report.b_left_trigger = U8_MAX
  /\ Mouse("Left") \notin DOMAIN analog_state

====
